---- MODULE Spec2Model ----
(***************************************************************************)
(* Constitution Chat: the index lifecycle (document_query.py,              *)
(* load_and_index_documents / create_new_index) and the chat turn          *)
(* (app.py main, document_query.py query_documents).                       *)
(*                                                                         *)
(* Texts are sequences of one-character strings, so that concatenation,    *)
(* prefixes and the cursor mark are things the model can tell apart.       *)
(*                                                                         *)
(* Two specifications share the actions:                                   *)
(*   Spec      the process from its start: several browser sessions, the   *)
(*             storage directory as found on disk, a crash and restart;    *)
(*   SpecChat  one session whose index is loaded, with the full range of   *)
(*             backend outcomes and a history long enough to be windowed.  *)
(***************************************************************************)
EXTENDS Integers, Sequences, FiniteSets, TLC

\* ---------------------------------------------------------------- bounds
NumSessions == 2      \* browser sessions of the one Streamlit process
MaxLoads    == 3      \* calls of load_and_index_documents per process lifetime
MaxMsgs     == 5      \* a prompt is accepted while the history is shorter

\* ---------------------------------------------------------------- program constants
HistoryWindow == 4    \* app.py:62  st.session_state.messages[-4:]

Sessions     == 1..NumSessions
ChatSessions == {1}

VARIABLES
    \* the environment of the process
    corpus,         \* data_dir: "docs" (readable, non-empty) or "empty"
    storage,        \* storage_dir: [dir, docstore, aux]
    nextBuild,      \* identity of the next index built by create_new_index
    crashed,        \* the process has crashed and been restarted (once at most)
    loadCalls,      \* calls of load_and_index_documents in this process lifetime
    \* st.session_state, one per session
    keys,           \* keys present in st.session_state
    messages,       \* st.session_state.messages
    index,          \* st.session_state.index
    \* the running script of each session
    pc,             \* "idle" | "load" | "build" | "doc_open" | "doc_write" | "aux_open" | "aux_write" | "stream"
    building,       \* create_new_index: the index held in memory while it is persisted
    prompt,         \* main: prompt
    chat_history,   \* main: chat_history, the argument passed to query_documents
    chat_context,   \* query_documents: chat_context, the text put into {chat_history}
    response,       \* main: response
    consumed,       \* fragments pulled from response.response_gen so far
    full_response,  \* main: full_response
    displayed,      \* what response_placeholder shows
    \* what an observer of the call / the turn records
    callStorage,    \* storage as load_and_index_documents found it
    via,            \* how the last call got its index: "none" | "load" | "rebuild"
    raised,         \* the last call of load_and_index_documents raised to the script
    wrote,          \* the last call of load_and_index_documents wrote to storage
    outcome         \* the last turn: "none" | "running" | "answered" | "fault"

envVars  == <<corpus, storage, nextBuild, crashed, loadCalls>>
sessVars == <<keys, messages, index>>
callVars == <<building, callStorage, via, raised, wrote>>
turnVars == <<prompt, chat_history, chat_context, response, consumed, full_response, displayed, outcome>>
vars     == <<envVars, sessVars, pc, callVars, turnVars>>

\* ---------------------------------------------------------------- files and indexes
Absent      == [state |-> "absent",   build |-> 0]
Partial     == [state |-> "partial",  build |-> 0]
Complete(b) == [state |-> "complete", build |-> b]

NoIndex       == [doc |-> -1, aux |-> -1]
NoStorage     == [dir |-> FALSE, docstore |-> Absent, aux |-> Absent]

\* Path(storage_dir).mkdir(exist_ok=True)
mkdir(st) == [st EXCEPT !.dir = TRUE]

\* storage_path.exists() with the path built from the wrong directory: never there
storage_path_exists_wrong_dir(st) == FALSE

\* storage_path.exists()
storage_path_exists(st) == st.docstore.state # "absent"

\* a loader that is content with a whole docstore.json
load_succeeds_docstore_only(st) == st.docstore.state = "complete"

\* StorageContext.from_defaults(persist_dir) + load_index_from_storage: every file
\* of the snapshot must be there and parse; a truncated file does not parse. The
\* files are read one by one and nothing ties them to one another.
load_succeeds(st) == st.docstore.state = "complete" /\ st.aux.state = "complete"
load_index_from_storage(st) == [doc |-> st.docstore.build, aux |-> st.aux.build]

\* VectorStoreIndex.from_documents(documents): a fresh index, both parts from build b
from_documents(b) == [doc |-> b, aux |-> b]

\* SimpleDirectoryReader(data_dir).load_data() raises on a directory without files
load_data_raises(c) == c = "empty"

\* ---------------------------------------------------------------- texts
Cursor        == "|"          \* the block cursor of app.py:79
CannotAnswer  == <<"C", "A">> \* "Cannot answer based on the available information."
Welcome       == <<"W">>      \* the welcome text of app.py:10
NoSource      == <<"None">>   \* Python None
fragEmpty == <<>>
fragA     == <<"a">>
fragB     == <<"b">>
fragBlank == <<" ">>

user_message(p)          == [role |-> "user", content |-> p, source |-> NoSource]
assistant_message(t, src) == [role |-> "assistant", content |-> t, source |-> src]
welcome_message          == [role |-> "assistant", content |-> Welcome, source |-> NoSource]

\* ---------------------------------------------------------------- the process start
\* The storage directory as the process finds it: not there, or left by an earlier
\* run of the program (build 0) with each file whole, cut short or missing (a crash
\* while persisting, a removed docstore.json, which is how a rebuild is requested).
FoundFiles == {Absent, Partial, Complete(0)}
FoundStorage ==
    {NoStorage} \cup {[dir |-> TRUE, docstore |-> d, aux |-> x] : d \in FoundFiles, x \in FoundFiles}

NoResponse == [type |-> "none", value |-> <<>>, response_gen |-> <<>>, fail_at |-> 0, source_nodes |-> <<>>]

FreshSessions ==
    /\ keys          = [s \in Sessions |-> {}]
    /\ messages      = [s \in Sessions |-> <<>>]
    /\ index         = [s \in Sessions |-> NoIndex]
    /\ pc            = [s \in Sessions |-> "idle"]
    /\ building      = [s \in Sessions |-> NoIndex]
    /\ prompt        = [s \in Sessions |-> <<>>]
    /\ chat_history  = [s \in Sessions |-> <<>>]
    /\ chat_context  = [s \in Sessions |-> <<>>]
    /\ response      = [s \in Sessions |-> NoResponse]
    /\ consumed      = [s \in Sessions |-> 0]
    /\ full_response = [s \in Sessions |-> <<>>]
    /\ displayed     = [s \in Sessions |-> <<>>]
    /\ callStorage   = [s \in Sessions |-> NoStorage]
    /\ via           = [s \in Sessions |-> "none"]
    /\ raised        = [s \in Sessions |-> FALSE]
    /\ wrote         = [s \in Sessions |-> FALSE]
    /\ outcome       = [s \in Sessions |-> "none"]

Init ==
    /\ corpus \in {"docs", "empty"}
    /\ storage \in FoundStorage
    /\ nextBuild = 1
    /\ crashed = FALSE
    /\ loadCalls = 0
    /\ FreshSessions

\* ---------------------------------------------------------------- index lifecycle
\* app.py:5-28, a script run of a session that has no index yet (the first run of
\* the session, or a rerun after the load raised): the messages are initialised
\* and load_and_index_documents is called.
script_run(s) ==
    /\ pc[s] = "idle"
    /\ "index" \notin keys[s]
    /\ loadCalls < MaxLoads
    /\ keys' = [keys EXCEPT ![s] = @ \cup {"messages"}]
    /\ messages' = [messages EXCEPT ![s] = IF "messages" \in keys[s] THEN @ ELSE <<welcome_message>>]
    /\ loadCalls' = loadCalls + 1
    /\ pc' = [pc EXCEPT ![s] = "load"]
    /\ callStorage' = [callStorage EXCEPT ![s] = NoStorage]
    /\ via' = [via EXCEPT ![s] = "none"]
    /\ raised' = [raised EXCEPT ![s] = FALSE]
    /\ wrote' = [wrote EXCEPT ![s] = FALSE]
    /\ UNCHANGED <<corpus, storage, nextBuild, crashed, index, building, turnVars>>

\* document_query.py:16-35 up to the return of the loaded index or the call of
\* create_new_index
load_and_index_documents(s) ==
    /\ pc[s] = "load"
    /\ storage' = mkdir(storage)
    /\ callStorage' = [callStorage EXCEPT ![s] = storage]
    /\ wrote' = [wrote EXCEPT ![s] = (mkdir(storage) # storage)]
    /\ IF storage_path_exists(storage) /\ load_succeeds(storage)
       THEN /\ index' = [index EXCEPT ![s] = load_index_from_storage(storage)]
            /\ keys' = [keys EXCEPT ![s] = @ \cup {"index"}]
            /\ via' = [via EXCEPT ![s] = "load"]
            /\ pc' = [pc EXCEPT ![s] = "idle"]
       ELSE /\ pc' = [pc EXCEPT ![s] = "build"]
            /\ UNCHANGED <<index, keys, via>>
    /\ UNCHANGED <<corpus, nextBuild, crashed, loadCalls, messages, building, raised, turnVars>>

\* document_query.py:37-41: read the corpus and build the index in memory; an empty
\* corpus raises, through load_and_index_documents, to the script, which stops
create_new_index(s) ==
    /\ pc[s] = "build"
    /\ IF load_data_raises(corpus)
       THEN /\ raised' = [raised EXCEPT ![s] = TRUE]
            /\ pc' = [pc EXCEPT ![s] = "idle"]
            /\ UNCHANGED <<building, nextBuild>>
       ELSE /\ building' = [building EXCEPT ![s] = from_documents(nextBuild)]
            /\ nextBuild' = nextBuild + 1
            /\ pc' = [pc EXCEPT ![s] = "doc_open"]
            /\ UNCHANGED raised
    /\ UNCHANGED <<corpus, storage, crashed, loadCalls, sessVars, callStorage, via, wrote, turnVars>>

\* document_query.py:44-47: index.storage_context.persist(persist_dir=storage_dir)
\* writes the files in place, docstore.json first; each file is opened (and so cut
\* to nothing) and then written. After the last file the index is returned.
persist(s) ==
    /\ pc[s] \in {"doc_open", "doc_write", "aux_open", "aux_write"}
    /\ storage' = CASE pc[s] = "doc_open"  -> [storage EXCEPT !.docstore = Partial]
                    [] pc[s] = "doc_write" -> [storage EXCEPT !.docstore = Complete(building[s].doc)]
                    [] pc[s] = "aux_open"  -> [storage EXCEPT !.aux = Partial]
                    [] pc[s] = "aux_write" -> [storage EXCEPT !.aux = Complete(building[s].aux)]
    /\ wrote' = [wrote EXCEPT ![s] = TRUE]
    /\ pc' = [pc EXCEPT ![s] = CASE pc[s] = "doc_open"  -> "doc_write"
                                  [] pc[s] = "doc_write" -> "aux_open"
                                  [] pc[s] = "aux_open"  -> "aux_write"
                                  [] pc[s] = "aux_write" -> "idle"]
    /\ IF pc[s] = "aux_write"
       THEN /\ index' = [index EXCEPT ![s] = building[s]]
            /\ keys' = [keys EXCEPT ![s] = @ \cup {"index"}]
            /\ via' = [via EXCEPT ![s] = "rebuild"]
       ELSE UNCHANGED <<index, keys, via>>
    /\ UNCHANGED <<corpus, nextBuild, crashed, loadCalls, messages, building, callStorage, raised, turnVars>>

\* The process dies at any point and is started again: every st.session_state is
\* gone, the storage directory stays as it was at that moment.
crash ==
    /\ ~crashed
    /\ crashed' = TRUE
    /\ loadCalls' = 0
    /\ keys'          = [s \in Sessions |-> {}]
    /\ messages'      = [s \in Sessions |-> <<>>]
    /\ index'         = [s \in Sessions |-> NoIndex]
    /\ pc'            = [s \in Sessions |-> "idle"]
    /\ building'      = [s \in Sessions |-> NoIndex]
    /\ prompt'        = [s \in Sessions |-> <<>>]
    /\ chat_history'  = [s \in Sessions |-> <<>>]
    /\ chat_context'  = [s \in Sessions |-> <<>>]
    /\ response'      = [s \in Sessions |-> NoResponse]
    /\ consumed'      = [s \in Sessions |-> 0]
    /\ full_response' = [s \in Sessions |-> <<>>]
    /\ displayed'     = [s \in Sessions |-> <<>>]
    /\ callStorage'   = [s \in Sessions |-> NoStorage]
    /\ via'           = [s \in Sessions |-> "none"]
    /\ raised'        = [s \in Sessions |-> FALSE]
    /\ wrote'         = [s \in Sessions |-> FALSE]
    /\ outcome'       = [s \in Sessions |-> "none"]
    /\ UNCHANGED <<corpus, storage, nextBuild>>

\* ---------------------------------------------------------------- the chat turn
RECURSIVE Join(_, _)
\* sep.join(lines)
Join(lines, sep) ==
    IF lines = <<>> THEN <<>>
    ELSE IF Len(lines) = 1 THEN lines[1]
    ELSE lines[1] \o <<sep>> \o Join(Tail(lines), sep)

\* seq[:n], the slice taken from the wrong end
first_n(seq, n) == IF Len(seq) <= n THEN seq ELSE SubSeq(seq, 1, n)

\* seq[-n:]
last_n(seq, n) == IF Len(seq) <= n THEN seq ELSE SubSeq(seq, Len(seq) - n + 1, Len(seq))

\* app.py:62  st.session_state.messages[-4:] if len(...) > 0 else None  (None is <<>>)
history_window(msgs) == IF Len(msgs) > 0 THEN last_n(msgs, HistoryWindow) ELSE <<>>

\* document_query.py:54  f"{'User' if msg['role'] == 'user' else 'Assistant'}: {msg['content']}"
render_line(msg) == <<(IF msg.role = "user" THEN "User: " ELSE "Assistant: ")>> \o msg.content

\* document_query.py:51-56
render_history(hist) ==
    IF hist # <<>> THEN Join([i \in 1..Len(hist) |-> render_line(hist[i])], "\n") ELSE <<>>

\* What the backend does with one query: query_engine.query raises, or it returns a
\* streaming response whose generator yields gen and raises on pull number fail_at
\* (0: it never raises), grounded on source_nodes.
Gens ==
    { <<>>, <<fragEmpty>>, <<fragA>>, <<fragBlank>>, <<fragA, fragEmpty, fragB>>, <<fragB, fragA>> }
Backends(gens) ==
    {[raises |-> TRUE, gen |-> <<>>, fail_at |-> 0, source_nodes |-> <<>>]}
    \cup {[raises |-> FALSE, gen |-> g, fail_at |-> k, source_nodes |-> n] :
               g \in gens, k \in {0, 1, 2}, n \in {<<>>, <<fragB>>}}

\* document_query.py:147-151: the response object, or the fallback as a plain str
query_documents(backend) ==
    IF backend.raises
    THEN [type |-> "str", value |-> CannotAnswer, response_gen |-> <<>>, fail_at |-> 0,
          source_nodes |-> <<>>]
    ELSE [type |-> "StreamingResponse", value |-> <<>>, response_gen |-> backend.gen,
          fail_at |-> backend.fail_at, source_nodes |-> backend.source_nodes]

\* hasattr(response, name): a str has neither response_gen nor source_nodes
hasattr(resp, name) == resp.type = "StreamingResponse"

\* full_response = chunk + full_response, the operands swapped
accumulate_swapped(full, chunk) == chunk \o full

\* app.py:78  full_response += chunk
accumulate(full, chunk) == full \o chunk

\* app.py:79  full_response + the cursor
with_cursor(full) == full \o <<Cursor>>

\* app.py:91  the source stored with the assistant message
source_of(resp) ==
    IF hasattr(resp, "source_nodes") /\ resp.source_nodes # <<>> THEN resp.source_nodes[1] ELSE NoSource

\* app.py:30-31, the on_click callback of "Clear Chat" and the rerun it starts
\* (which has no prompt and changes nothing)
clear_chat(s) ==
    /\ pc[s] = "idle"
    /\ "index" \in keys[s]
    /\ messages[s] # <<>>
    /\ messages' = [messages EXCEPT ![s] = <<>>]
    /\ outcome' = [outcome EXCEPT ![s] = "none"]
    /\ UNCHANGED <<envVars, keys, index, pc, callVars, prompt, chat_history, chat_context,
                   response, consumed, full_response, displayed>>

\* app.py:52-76, a rerun with a prompt: the user message is appended, the window is
\* cut, query_documents is called, and response.response_gen is taken. On a str
\* that raises AttributeError and the script stops.
main_prompt(s, p, backend, cap) ==
    /\ pc[s] = "idle"
    /\ "index" \in keys[s]
    /\ Len(messages[s]) < cap
    /\ LET msgs == Append(messages[s], user_message(p))
           hist == history_window(msgs)
           resp == query_documents(backend)
       IN /\ messages' = [messages EXCEPT ![s] = msgs]
          /\ prompt' = [prompt EXCEPT ![s] = p]
          /\ chat_history' = [chat_history EXCEPT ![s] = hist]
          /\ chat_context' = [chat_context EXCEPT ![s] = render_history(hist)]
          /\ response' = [response EXCEPT ![s] = resp]
          /\ consumed' = [consumed EXCEPT ![s] = 0]
          /\ full_response' = [full_response EXCEPT ![s] = <<>>]
          /\ displayed' = [displayed EXCEPT ![s] = <<>>]
          /\ IF hasattr(resp, "response_gen")
             THEN /\ pc' = [pc EXCEPT ![s] = "stream"]
                  /\ outcome' = [outcome EXCEPT ![s] = "running"]
             ELSE /\ pc' = pc
                  /\ outcome' = [outcome EXCEPT ![s] = "fault"]
    /\ UNCHANGED <<envVars, keys, index, callVars>>

\* app.py:76-79, one pull from response.response_gen: the generator raises (the
\* script stops), or it yields a chunk, which is shown if it is not empty
main_stream(s) ==
    /\ pc[s] = "stream"
    /\ LET r == response[s]
           n == consumed[s] + 1
       IN /\ n <= Len(r.response_gen) \/ r.fail_at = n
          /\ IF r.fail_at = n
             THEN /\ pc' = [pc EXCEPT ![s] = "idle"]
                  /\ outcome' = [outcome EXCEPT ![s] = "fault"]
                  /\ UNCHANGED <<consumed, full_response, displayed>>
             ELSE /\ consumed' = [consumed EXCEPT ![s] = n]
                  /\ IF r.response_gen[n] # <<>>
                     THEN /\ full_response' = [full_response EXCEPT ![s] = accumulate(@, r.response_gen[n])]
                          /\ displayed' = [displayed EXCEPT ![s] =
                                              with_cursor(accumulate(full_response[s], r.response_gen[n]))]
                     ELSE UNCHANGED <<full_response, displayed>>
                  /\ UNCHANGED <<pc, outcome>>
    /\ UNCHANGED <<envVars, sessVars, callVars, prompt, chat_history, chat_context, response>>

\* app.py:82-96, the generator is exhausted: the final text is shown and the
\* assistant message is appended
main_finish(s) ==
    /\ pc[s] = "stream"
    /\ consumed[s] = Len(response[s].response_gen)
    /\ response[s].fail_at # consumed[s] + 1
    /\ displayed' = [displayed EXCEPT ![s] = full_response[s]]
    /\ messages' = [messages EXCEPT ![s] =
                       Append(@, assistant_message(full_response[s], source_of(response[s])))]
    /\ pc' = [pc EXCEPT ![s] = "idle"]
    /\ outcome' = [outcome EXCEPT ![s] = "answered"]
    /\ UNCHANGED <<envVars, keys, index, callVars, prompt, chat_history, chat_context,
                   response, consumed, full_response>>

\* ---------------------------------------------------------------- specifications
Prompts == {<<"q">>}

Next ==
    \/ \E s \in Sessions : script_run(s)
    \/ \E s \in Sessions : load_and_index_documents(s)
    \/ \E s \in Sessions : create_new_index(s)
    \/ \E s \in Sessions : persist(s)
    \/ crash

Spec == Init /\ [][Next]_vars

\* One session after a successful load of a whole snapshot
InitChat ==
    /\ corpus = "docs"
    /\ storage = [dir |-> TRUE, docstore |-> Complete(0), aux |-> Complete(0)]
    /\ nextBuild = 1
    /\ crashed = FALSE
    /\ loadCalls = 1
    /\ keys          = [s \in Sessions |-> IF s \in ChatSessions THEN {"messages", "index"} ELSE {}]
    /\ messages      = [s \in Sessions |-> IF s \in ChatSessions THEN <<welcome_message>> ELSE <<>>]
    /\ index         = [s \in Sessions |-> IF s \in ChatSessions THEN [doc |-> 0, aux |-> 0] ELSE NoIndex]
    /\ pc            = [s \in Sessions |-> "idle"]
    /\ building      = [s \in Sessions |-> NoIndex]
    /\ prompt        = [s \in Sessions |-> <<>>]
    /\ chat_history  = [s \in Sessions |-> <<>>]
    /\ chat_context  = [s \in Sessions |-> <<>>]
    /\ response      = [s \in Sessions |-> NoResponse]
    /\ consumed      = [s \in Sessions |-> 0]
    /\ full_response = [s \in Sessions |-> <<>>]
    /\ displayed     = [s \in Sessions |-> <<>>]
    /\ callStorage   = [s \in Sessions |-> IF s \in ChatSessions THEN storage ELSE NoStorage]
    /\ via           = [s \in Sessions |-> IF s \in ChatSessions THEN "load" ELSE "none"]
    /\ raised        = [s \in Sessions |-> FALSE]
    /\ wrote         = [s \in Sessions |-> FALSE]
    /\ outcome       = [s \in Sessions |-> "none"]

NextChat ==
    \/ \E s \in ChatSessions : clear_chat(s)
    \/ \E s \in ChatSessions, p \in Prompts, k \in Backends(Gens) : main_prompt(s, p, k, MaxMsgs)
    \/ \E s \in ChatSessions : main_stream(s)
    \/ \E s \in ChatSessions : main_finish(s)

SpecChat == InitChat /\ [][NextChat]_vars

\* ---------------------------------------------------------------- index lifecycle: properties
\* The call of load_and_index_documents by session s has ended: it returned an index
\* or it raised.
CallReturned(s) == pc[s] = "idle" /\ via[s] # "none"
CallRaised(s)   == pc[s] = "idle" /\ raised[s]

\* docstore.json is there but the snapshot does not deserialize: a file of it is cut
\* short, or an auxiliary file is missing
Defective(st) ==
    /\ st.docstore.state # "absent"
    /\ st.docstore.state = "partial" \/ st.aux.state # "complete"

Whole(st) == st.docstore.state = "complete" /\ st.aux.state = "complete"

\* the index of one build made during this run of the program
FreshRebuild(idx) == idx.doc = idx.aux /\ idx.doc >= 1 /\ idx.doc < nextBuild

Persisting == {s \in Sessions : pc[s] \in {"doc_open", "doc_write", "aux_open", "aux_write"}}

\* C1 (as amended): when docstore.json exists and the snapshot does not deserialize,
\* the call rebuilds. If the rebuild succeeds the call returns the index of a
\* from-scratch rebuild and does not raise; it raises only when the rebuild itself
\* cannot succeed (empty corpus), and then no index is returned.
C1_CorruptSnapshotRebuilds ==
    \A s \in Sessions :
        Defective(callStorage[s]) /\ pc[s] = "idle" =>
            /\ CallReturned(s) \/ CallRaised(s)
            /\ CallReturned(s) => via[s] = "rebuild" /\ FreshRebuild(index[s]) /\ ~raised[s]
            /\ CallRaised(s) => corpus = "empty" /\ "index" \notin keys[s] /\ via[s] = "none"
            /\ corpus = "docs" => CallReturned(s)

\* C1 witness: a call that found a defective snapshot has returned a rebuilt index
C1_Witness ==
    \E s \in Sessions :
        Defective(callStorage[s]) /\ CallReturned(s) /\ via[s] = "rebuild" /\ "index" \in keys[s]

\* C1 as stated: with a defective snapshot the call never raises and returns a
\* rebuilt index, whatever the corpus
C1_Original ==
    \A s \in Sessions :
        Defective(callStorage[s]) /\ pc[s] = "idle" =>
            ~raised[s] /\ via[s] = "rebuild" /\ FreshRebuild(index[s])

\* nothing has been written to storage since the process started
NoWriteThisLifetime ==
    \A t \in Sessions : ~wrote[t] /\ pc[t] \in {"idle", "load"}

\* C2 as stated: after a crash, an index that a call loads from the storage the
\* crash left behind is the index of one whole build, never parts of different
\* builds
C2_LoadedIndexIsOneBuild ==
    \A s \in Sessions :
        crashed /\ NoWriteThisLifetime /\ via[s] = "load" => index[s].doc = index[s].aux

C8_LoadedOncePerProcess ==
    /\ loadCalls <= 1
    /\ Cardinality({s \in Sessions : pc[s] # "idle"}) <= 1

\* ---------------------------------------------------------------- chat turn: properties
RECURSIVE LinesOf(_)
\* the lines of a text, cut at its newlines (no text: no line)
LinesOf(t) ==
    IF t = <<>> THEN <<>>
    ELSE LET nl == {i \in 1..Len(t) : t[i] = "\n"}
         IN IF nl = {} THEN <<t>>
            ELSE LET i == CHOOSE j \in nl : \A k \in nl : j <= k
                 IN <<SubSeq(t, 1, i - 1)>> \o LinesOf(SubSeq(t, i + 1, Len(t)))

RECURSIVE Flatten(_)
\* the fragments of a stream one after the other
Flatten(frags) == IF frags = <<>> THEN <<>> ELSE Head(frags) \o Flatten(Tail(frags))

IsPrefix(p, t) == Len(p) <= Len(t) /\ SubSeq(t, 1, Len(p)) = p
IsBlank(t) == \A i \in 1..Len(t) : t[i] = " "
Last(seq) == seq[Len(seq)]
Front(seq) == SubSeq(seq, 1, Len(seq) - 1)

\* a query has been issued in session s and the history has not been cleared since
Queried(s) == outcome[s] \in {"running", "fault", "answered"}

\* st.session_state.messages as it was at app.py:62 of the last query
HistoryAtQuery(s) == IF outcome[s] = "answered" THEN Front(messages[s]) ELSE messages[s]

\* C3 as stated: no backend error makes the script stop with an unhandled
\* exception; the turn ends with the fallback appended as the assistant message
C3_BackendErrorsDegrade ==
    \A s \in ChatSessions :
        /\ outcome[s] # "fault"
        /\ (pc[s] = "idle" /\ response[s].type = "str" /\ messages[s] # <<>>) =>
               Last(messages[s]) = assistant_message(CannotAnswer, NoSource)

\* C5: the text rendered into {chat_history} has one line per message of the last
\* min(n, 4) messages of the history of length n held at app.py:62, in their order,
\* each line the role prefix followed by the content, and nothing else.
C5_WindowIsLastFour ==
    \A s \in ChatSessions :
        Queried(s) =>
            LET h     == HistoryAtQuery(s)
                n     == Len(h)
                k     == IF n < 4 THEN n ELSE 4
                lines == LinesOf(chat_context[s])
            IN /\ Len(lines) = k
               /\ \A i \in 1..k :
                      lines[i] = <<(IF h[n - k + i].role = "user" THEN "User: " ELSE "Assistant: ")>>
                                 \o h[n - k + i].content

\* C5 witness: a query issued on a history longer than the window, whose first
\* messages are therefore left out
C5_Witness ==
    \E s \in ChatSessions :
        /\ outcome[s] = "running" /\ Len(messages[s]) > 4
        /\ Len(LinesOf(chat_context[s])) = 4

\* C6 as stated: the window passed to query_documents is made of messages that
\* precede the message carrying the current query
C6_WindowHasPriorTurnsOnly ==
    \A s \in ChatSessions :
        outcome[s] = "running" =>
            \E lo \in 1..Len(messages[s]), hi \in 0..(Len(messages[s]) - 1) :
                chat_history[s] = SubSeq(messages[s], lo, hi)

\* C7 as stated: an answer grounded on no source chunk, or empty or blank, reaches
\* the user as the fixed "cannot answer" message without a source
C7_UngroundedAnswerRefused ==
    \A s \in ChatSessions :
        (/\ outcome[s] = "answered"
         /\ response[s].source_nodes = <<>> \/ IsBlank(Flatten(response[s].response_gen))) =>
            /\ Last(messages[s]) = assistant_message(CannotAnswer, NoSource)
            /\ displayed[s] = CannotAnswer

\* C9 as stated: the lines rendered for a query alternate between "User:" and
\* "Assistant:"
C9_RenderedRolesAlternate ==
    \A s \in ChatSessions :
        Queried(s) =>
            LET lines == LinesOf(chat_context[s])
            IN \A i \in 1..(Len(lines) - 1) : Head(lines[i]) # Head(lines[i + 1])

\* C10 (as amended): once the stream is consumed to its end the assistant message
\* appended is the fragments one after the other in arrival order, and that text is
\* what is shown; while the stream is consumed the text shown is nothing, or the
\* fragments pulled so far (a prefix of the final text) followed by the cursor mark.
C10_StreamedTextIsConcatenation ==
    \A s \in ChatSessions :
        /\ outcome[s] = "answered" =>
               /\ Last(messages[s]).role = "assistant"
               /\ Last(messages[s]).content = Flatten(response[s].response_gen)
               /\ displayed[s] = Flatten(response[s].response_gen)
        /\ pc[s] = "stream" =>
               \/ /\ displayed[s] = <<>>
                  /\ Flatten(SubSeq(response[s].response_gen, 1, consumed[s])) = <<>>
               \/ /\ Last(displayed[s]) = Cursor
                  /\ Front(displayed[s]) = Flatten(SubSeq(response[s].response_gen, 1, consumed[s]))
                  /\ IsPrefix(Front(displayed[s]), Flatten(response[s].response_gen))

\* C10 witness: a stream of several fragments, one of them empty, consumed to its
\* end and appended
C10_Witness ==
    \E s \in ChatSessions :
        /\ outcome[s] = "answered"
        /\ response[s].response_gen = <<fragA, fragEmpty, fragB>>
        /\ Last(messages[s]).content = <<"a", "b">>

\* C10 as stated: every text shown while the stream is consumed is a prefix of the
\* final text
C10_Original ==
    \A s \in ChatSessions :
        /\ outcome[s] = "answered" => Last(messages[s]).content = Flatten(response[s].response_gen)
        /\ pc[s] = "stream" => IsPrefix(displayed[s], Flatten(response[s].response_gen))

====
